---- MODULE Spec2Model ----
(***************************************************************************)
(* Model of the CTET EEG preprocessing tools (src/src/utils/ctet_tools.py) *)
(* and of the pipeline script (src/main.py).                               *)
(*                                                                         *)
(* numpy arrays are heap objects: `heap` maps an object identity to the    *)
(* array it holds, so that in-place updates (`*=`, `-=`) and copies        *)
(* (`.copy()`) are distinguishable.  Samples are exact rationals (the      *)
(* float64 rounding of the arithmetic is not modelled).  The output of a   *)
(* digital filter is kept symbolically: the filtered samples together with *)
(* the list of filters applied to them.                                    *)
(***************************************************************************)
EXTENDS Integers, Sequences, FiniteSets, TLC

VARIABLES
    heap,         \* object identity -> numpy array
    reader,       \* the ReadManager: its params and the identity of its samples
    raw0,         \* the raw samples as recorded in the file (history variable)
    metadata,     \* the EEGMetadata built by get_session_metadata
    last,         \* the last library call made by the caller, and its outcome
    nscaled,      \* how many times get_eeg_signal has returned
    pc,           \* main(): position in the script
    raw_signal,   \* main(): local variables (object identities, None = 0)
    ref_signal,
    notch_signal,
    preprocessed_signal,
    trace         \* main(): the stages run so far

vars == <<heap, reader, raw0, metadata, last, nscaled, pc, raw_signal,
          ref_signal, notch_signal, preprocessed_signal, trace>>

mainVars == <<pc, raw_signal, ref_signal, notch_signal, preprocessed_signal, trace>>

-----------------------------------------------------------------------------
(* Bounds of the model. *)

MaxChannels == 2      \* channel names (and channel rows) per session
MaxSamples == 2       \* sample columns of the sessions that are referenced
MaxRefs == 2          \* names in a ref_channels list
MaxScalings == 2      \* get_eeg_signal calls on one reader
MaxDim == 28          \* longer side of the matrices handed to the filters

None == 0

(* Constants of the program. *)

DefaultOrder == 4            \* apply_bandpass_filter(order=4)
DefaultQuality == 30         \* apply_notch_filter(quality_factor=30)
NotchHz == 50                \* main(): freq=50.0
LowcutHz == 1                \* main(): lowcut=1.0
HighcutHz == 40              \* main(): highcut=40
DefaultFs == 512             \* params.get("sampling_frequency", 512.0)

Names == {"Fz", "Pz"}

\* The raw ADC values the sessions are filled with.
RawVals == {0 - 1, 0, 2}

SeqsUpTo(S, n) == UNION {[1..k -> S] : k \in 0..n}

Range(s) == {s[i] : i \in DOMAIN s}

Max2(x, y) == IF x >= y THEN x ELSE y

Abs(x) == IF x < 0 THEN 0 - x ELSE x

-----------------------------------------------------------------------------
(* Exact arithmetic on samples.  A number is n / (q * 2^a * 5^b), in       *)
(* canonical form: q > 0 is coprime to n, 2 and 5; n is odd when a > 0 and *)
(* no multiple of 5 when b > 0; zero is 0/1.  The float values that are no *)
(* numbers have q = 0: nan (n = 0), inf (n = 1) and -inf (n = -1).         *)

RECURSIVE GCD(_, _)
GCD(x, y) == IF y = 0 THEN x ELSE GCD(y, x % y)

RECURSIVE Pow(_, _)
Pow(p, e) == IF e = 0 THEN 1 ELSE p * Pow(p, e - 1)

\* Cancel the factor p of n against p^e: <<n', e'>>.
RECURSIVE Cancel(_, _, _)
Cancel(n, p, e) ==
    IF e > 0 /\ n % p = 0 THEN Cancel(n \div p, p, e - 1) ELSE <<n, e>>

\* Move the factors p of q into the exponent e: <<q', e'>>.
RECURSIVE Extract(_, _, _)
Extract(q, p, e) ==
    IF q % p = 0 THEN Extract(q \div p, p, e + 1) ELSE <<q, e>>

Zero == [n |-> 0, q |-> 1, a |-> 0, b |-> 0]

Norm(n, q, a, b) ==
    IF n = 0 THEN Zero
    ELSE LET g  == GCD(Abs(n), q)
             n1 == n \div g
             e2 == Extract(q \div g, 2, a)
             e5 == Extract(e2[1], 5, b)
             c2 == Cancel(n1, 2, e2[2])
             c5 == Cancel(c2[1], 5, e5[2])
         IN  [n |-> c5[1], q |-> e5[1], a |-> c2[2], b |-> c5[2]]

Num(k) == Norm(k, 1, 0, 0)

NaN == [n |-> 0, q |-> 0, a |-> 0, b |-> 0]

\* inf for s = 1, -inf for s = -1.
Inf(s) == [n |-> s, q |-> 0, a |-> 0, b |-> 0]

IsFinite(x) == x.q # 0

Sign(k) == IF k > 0 THEN 1 ELSE IF k < 0 THEN 0 - 1 ELSE 0

Mul(x, y) ==
    IF IsFinite(x) /\ IsFinite(y)
    THEN Norm(x.n * y.n, x.q * y.q, x.a + y.a, x.b + y.b)
    ELSE IF Sign(x.n) * Sign(y.n) = 0 THEN NaN     \* nan * x, inf * 0
    ELSE Inf(Sign(x.n) * Sign(y.n))

\* x + s*y for s = 1 or -1, over the common denominator.
Comb(x, s, y) ==
    IF IsFinite(x) /\ IsFinite(y)
    THEN LET A == Max2(x.a, y.a)
             B == Max2(x.b, y.b)
             xs == x.n * Pow(2, A - x.a) * Pow(5, B - x.b) * y.q
             ys == y.n * Pow(2, A - y.a) * Pow(5, B - y.b) * x.q
         IN  Norm(xs + s * ys, x.q * y.q, A, B)
    ELSE IF x = NaN \/ y = NaN THEN NaN
    ELSE IF IsFinite(y) THEN x
    ELSE IF IsFinite(x) THEN Inf(s * y.n)
    ELSE IF x.n = s * y.n THEN x ELSE NaN           \* inf - inf

Add(x, y) == Comb(x, 1, y)

Sub(x, y) == Comb(x, 0 - 1, y)

\* x / k for a count k >= 0, as numpy divides floats: 0/0 is nan, x/0 is
\* inf with the sign of x.
DivInt(x, k) ==
    IF ~IsFinite(x) THEN x
    ELSE IF k = 0 THEN (IF x.n = 0 THEN NaN ELSE Inf(Sign(x.n)))
    ELSE Norm(x.n, x.q * k, x.a, x.b)

RECURSIVE Sum(_)
Sum(s) == IF s = <<>> THEN Zero ELSE Add(s[1], Sum(Tail(s)))

\* Signal scaling factor for the OBCI amplifier: 0.0715 = 715 / 10^4.
VOLTAGE_SCALING == Norm(715, 1, 4, 4)

-----------------------------------------------------------------------------
(* numpy arrays: shape, the samples row by row, and the filters applied.   *)

Arr(r, c, rows, filt) == [shape |-> <<r, c>>, rows |-> rows, filt |-> filt]

\* The raw matrix whose row i holds v[i], 2*v[i], ..., c*v[i].
Pattern(v, c) ==
    Arr(Len(v), c, [i \in 1..Len(v) |-> [j \in 1..c |-> Num(v[i] * j)]], <<>>)

Size(x) == x.shape[1] * x.shape[2]

\* x * k, elementwise.
Scaled(x, k) ==
    [x EXCEPT !.rows = [i \in 1..x.shape[1] |->
                          [j \in 1..x.shape[2] |-> Mul(x.rows[i][j], k)]]]

\* data.T
Transposed(x) ==
    Arr(x.shape[2], x.shape[1],
        [j \in 1..x.shape[2] |-> [i \in 1..x.shape[1] |-> x.rows[i][j]]],
        x.filt)

\* A variant of MeanRows that forgets to divide: np.sum(x[idx, :], axis=0).
SumRows(x, idx) ==
    [j \in 1..x.shape[2] |->
        Sum([k \in 1..Len(idx) |-> x.rows[idx[k] + 1][j]])]

\* np.mean(x[idx, :], axis=0) for a list idx of 0-based row indices.
MeanRows(x, idx) ==
    [j \in 1..x.shape[2] |->
        DivInt(Sum([k \in 1..Len(idx) |-> x.rows[idx[k] + 1][j]]), Len(idx))]

\* x - ref, the row vector ref broadcast over the rows.
MinusRow(x, ref) ==
    [x EXCEPT !.rows = [i \in 1..x.shape[1] |->
                          [j \in 1..x.shape[2] |-> Sub(x.rows[i][j], ref[j])]]]

-----------------------------------------------------------------------------
(* The heap of numpy arrays. *)

\* The identity of a newly created object.
NewId(h) == CHOOSE k \in 1..(Cardinality(DOMAIN h) + 1) : k \notin DOMAIN h

Alloc(h, x) == [k \in DOMAIN h \cup {NewId(h)} |-> IF k \in DOMAIN h THEN h[k] ELSE x]

EmptyArr == Arr(0, 0, <<>>, <<>>)

NoPrint == [msg |-> "", arg |-> <<>>]

\* What a call hands back: the heap after it, the value returned (an object
\* identity, None when it raised), the exception raised and the status line
\* printed.
Outcome(h, ret, exc, printed) ==
    [heap |-> h, ret |-> ret, exc |-> exc, printed |-> printed]

-----------------------------------------------------------------------------
(* EEGMetadata and get_session_metadata. *)

EmptyDict == [k \in {} |-> 0]

\* d[k] = v
DictPut(d, k, v) == [x \in DOMAIN d \cup {k} |-> IF x = k THEN v ELSE d[x]]

\* {name: i for i, name in enumerate(ch_names)}, the entries written in order
\* of i (i counted from 1 here, the index stored is i - 1).
RECURSIVE DictOfEnumerate(_, _, _)
DictOfEnumerate(ch_names, i, d) ==
    IF i > Len(ch_names) THEN d
    ELSE DictOfEnumerate(ch_names, i + 1, DictPut(d, ch_names[i], i - 1))

EEGMetadata(fs, num_channels, channel_names, channel_map, tags) ==
    [fs |-> fs, num_channels |-> num_channels, channel_names |-> channel_names,
     channel_map |-> channel_map, tags |-> tags]

\* A frequency of num/den Hz.
Hz(num, den) == [num |-> num, den |-> den]

NoMetadata == EEGMetadata(Hz(0, 1), 0, <<>>, EmptyDict, "unset")

\* The values a parameter of the session can hold: a Python int, a Python
\* float num/den, or a str.  A str holds the text of the integer num
\* (den = 1), of the decimal num/den (den > 1), or no number at all (den = 0).
PyInt(k) == [kind |-> "int", num |-> k, den |-> 1]

PyFloat(num, den) == [kind |-> "float", num |-> num, den |-> den]

PyStr(num, den) == [kind |-> "str", num |-> num, den |-> den]

\* float(v): the number v holds; ValueError for a text that is no number.
float(v) ==
    IF v.kind = "str" /\ v.den = 0
    THEN [exc |-> "ValueError", val |-> Hz(0, 1)]
    ELSE [exc |-> "none", val |-> Hz(v.num, v.den)]

\* int(v): an int as it is, a float truncated towards zero, a str only when
\* it is the text of an integer (ValueError otherwise).
int(v) ==
    IF v.kind = "int" THEN [exc |-> "none", val |-> v.num]
    ELSE IF v.kind = "float"
    THEN [exc |-> "none",
          val |-> IF v.num >= 0 THEN v.num \div v.den
                  ELSE 0 - ((0 - v.num) \div v.den)]
    ELSE IF v.den = 1 THEN [exc |-> "none", val |-> v.num]
    ELSE [exc |-> "ValueError", val |-> 0]

\* params.get(key, default)
Get(params, key, default) == IF key \in DOMAIN params THEN params[key] ELSE default

\* The metadata built, or the ValueError of a conversion.
get_session_metadata(read_manager) ==
    LET params       == read_manager.params
        ch_names     == Get(params, "channel_names", <<>>)
        fs           == float(Get(params, "sampling_frequency", PyFloat(DefaultFs, 1)))
        num_channels == int(Get(params, "number_of_channels", PyInt(0)))
    IN  IF fs.exc # "none" THEN [exc |-> fs.exc, md |-> NoMetadata]
        ELSE IF num_channels.exc # "none"
        THEN [exc |-> num_channels.exc, md |-> NoMetadata]
        ELSE [exc |-> "none",
              md  |-> EEGMetadata(fs.val,
                                  num_channels.val,
                                  ch_names,
                                  DictOfEnumerate(ch_names, 1, EmptyDict),
                                  read_manager.tags)]

-----------------------------------------------------------------------------
(* get_eeg_signal: the samples of the reader, scaled in place. *)

\* read_manager.get_samples(): the reader hands out the array it holds.
get_samples(read_manager) == read_manager.samples

\* signal *= VOLTAGE_SCALING
ScaleInPlace(h, signal) == [h EXCEPT ![signal] = Scaled(@, VOLTAGE_SCALING)]

\* A variant of get_eeg_signal that tests only for None.
get_eeg_signal_unsized(h, read_manager) ==
    LET signal == get_samples(read_manager)
    IN  IF signal = None
        THEN Outcome(h, None, "ValueError", NoPrint)
        ELSE Outcome(ScaleInPlace(h, signal), signal, "none", NoPrint)

get_eeg_signal(h, read_manager) ==
    LET signal == get_samples(read_manager)
    IN  IF signal = None \/ Size(h[signal]) = 0
        THEN Outcome(h, None, "ValueError", NoPrint)
        ELSE Outcome(ScaleInPlace(h, signal), signal, "none", NoPrint)

-----------------------------------------------------------------------------
(* reference: re-referencing to the common average or to named channels.   *)
(* ref_channels is [given |-> FALSE] for None, else the list of names.     *)

RefNone == [given |-> FALSE, names |-> <<>>]

RefList(names) == [given |-> TRUE, names |-> names]

\* The first name of the list that is no key of the map: the key of the
\* KeyError the list comprehension raises.
FirstMissing(channel_map, names) ==
    LET k == CHOOSE i \in 1..Len(names) :
                 /\ names[i] \notin DOMAIN channel_map
                 /\ \A j \in 1..(i - 1) : names[j] \in DOMAIN channel_map
    IN  names[k]

\* A variant of DataCopy without the call: data_copy = data.
DataAlias(h, data) == [heap |-> h, id |-> data]

\* data_copy = data.copy(): the heap with the copy in it, and its identity.
DataCopy(h, data) == [heap |-> Alloc(h, h[data]), id |-> NewId(h)]

\* The rows the reference is averaged over: every row (slice(None)) or the
\* rows of the named channels.
RefIndices(x, md, ref_channels) ==
    IF ~ref_channels.given \/ ref_channels.names = <<>>
    THEN [i \in 1..x.shape[1] |-> i - 1]
    ELSE [k \in 1..Len(ref_channels.names) |-> md.channel_map[ref_channels.names[k]]]

\* A variant of SubtractReference that leaves the reference rows as they are.
SubtractReferenceFromOthers(x, ref_indices) ==
    LET ref == MeanRows(x, ref_indices)
    IN  [x EXCEPT !.rows = [i \in 1..x.shape[1] |->
            IF \E k \in 1..Len(ref_indices) : ref_indices[k] = i - 1
            THEN x.rows[i]
            ELSE [j \in 1..x.shape[2] |-> Sub(x.rows[i][j], ref[j])]]]

\* data_copy -= np.mean(data_copy[ref_indices, :], axis=0)
SubtractReference(x, ref_indices) == MinusRow(x, MeanRows(x, ref_indices))

\* A variant of the except clause that falls back to the common average.
KeyErrorHandlerCAR(h1, data_copy, key) ==
    Outcome([h1 EXCEPT ![data_copy] =
                 SubtractReference(@, [i \in 1..h1[data_copy].shape[1] |-> i - 1])],
            data_copy, "none",
            [msg |-> "Critical Error: Channel not found in metadata. Skipping reference.",
             arg |-> <<key>>])

\* except KeyError as e: report the missing channel, return the copy as it is.
KeyErrorHandler(h1, data_copy, key) ==
    Outcome(h1, data_copy, "none",
            [msg |-> "Critical Error: Channel not found in metadata. Skipping reference.",
             arg |-> <<key>>])

reference(h, data, md, ref_channels) ==
    LET copied    == DataCopy(h, data)
        h1        == copied.heap
        data_copy == copied.id
        x         == h1[data_copy]
        car       == ~ref_channels.given \/ ref_channels.names = <<>>
        names     == ref_channels.names
    IN  IF ~car /\ \E i \in 1..Len(names) : names[i] \notin DOMAIN md.channel_map
        THEN KeyErrorHandler(h1, data_copy, FirstMissing(md.channel_map, names))
        ELSE LET ref_indices == RefIndices(x, md, ref_channels)
             IN  IF \E k \in 1..Len(ref_indices) : ref_indices[k] >= x.shape[1]
                 THEN Outcome(h, None, "IndexError",
                              [msg |-> "Status: Applied reference to channels",
                               arg |-> names])
                 ELSE Outcome([h1 EXCEPT ![data_copy] = SubtractReference(x, ref_indices)],
                              data_copy, "none",
                              IF car
                              THEN [msg |-> "Status: Applied Common Average Reference (CAR).",
                                    arg |-> <<>>]
                              ELSE [msg |-> "Status: Applied reference to channels",
                                    arg |-> names])

-----------------------------------------------------------------------------
(* The filters.  The sampling frequency is a fraction of Hz (the float of  *)
(* the metadata), the band edges are whole numbers of Hz.                  *)

\* A variant of Oriented without the axis validation.
AsGiven(x) == x

\* The defensive axis validation: data.T when rows outnumber columns.
Oriented(x) == IF x.shape[1] > x.shape[2] THEN Transposed(x) ELSE x

\* What the defensive axis validation prints.
AxisWarning(x) ==
    IF x.shape[1] > x.shape[2]
    THEN [msg |-> "Warning: Input data appears to be transposed. Correcting...",
          arg |-> <<>>]
    ELSE NoPrint

\* 2 * f >= fs and 2 * f > fs, for f in Hz and fs a fraction of Hz.
AtNyquist(f, fs) == 2 * f * fs.den >= fs.num

AboveNyquist(f, fs) == 2 * f * fs.den > fs.num

\* sp_signal.butter(order, [lowcut, highcut], btype='bandpass', output='sos',
\* fs=fs): the critical frequencies are normalised to Wn = 2*f/fs and must
\* satisfy 0 < Wn[0] < Wn[1] < 1; the cascade has `order` sections.
butter(order, lowcut, highcut, fs) ==
    IF \/ lowcut <= 0
       \/ highcut <= 0
       \/ ~(lowcut < highcut)
       \/ AtNyquist(lowcut, fs)
       \/ AtNyquist(highcut, fs)
    THEN [exc |-> "ValueError", n_sections |-> 0, design |-> <<>>]
    ELSE [exc |-> "none", n_sections |-> order,
          design |-> <<"butter", order, lowcut, highcut, fs>>]

\* sp_signal.tf2sos(*sp_signal.iirnotch(freq, quality_factor, fs)): the notch
\* frequency is normalised to w0 = 2*freq/fs and must satisfy 0 <= w0 <= 1;
\* the cascade has one section.
iirnotch(freq, quality_factor, fs) ==
    IF AboveNyquist(freq, fs) \/ freq < 0
    THEN [exc |-> "ValueError", n_sections |-> 0, design |-> <<>>]
    ELSE [exc |-> "none", n_sections |-> 1,
          design |-> <<"iirnotch", freq, quality_factor, fs>>]

\* The samples sosfiltfilt pads each end with: 3 * ntaps, ntaps = 2 * n_sections + 1.
PadLen(sos) == 3 * (2 * sos.n_sections + 1)

\* sp_signal.sosfiltfilt(sos, data, axis=-1): the signal along the last axis
\* must be longer than the padding; the result has the shape of data.
sosfiltfilt(sos, x) ==
    IF x.shape[2] <= PadLen(sos)
    THEN [exc |-> "ValueError", out |-> EmptyArr]
    ELSE [exc |-> "none", out |-> [x EXCEPT !.filt = Append(@, sos.design)]]

\* Design, then filter: the common tail of both filter functions.
Filtered(h, x, sos, printed) ==
    IF sos.exc # "none" THEN Outcome(h, None, sos.exc, printed)
    ELSE LET f == sosfiltfilt(sos, x)
         IN  IF f.exc # "none" THEN Outcome(h, None, f.exc, printed)
             ELSE Outcome(Alloc(h, f.out), NewId(h), "none", printed)

\* A variant of apply_bandpass_filter that recovers from a failed design the
\* way reference() recovers from a missing channel: it returns a copy of data.
apply_bandpass_filter_lenient(h, data, fs, lowcut, highcut, order) ==
    LET sos == butter(order, lowcut, highcut, fs)
    IN  IF sos.exc # "none"
        THEN Outcome(Alloc(h, Oriented(h[data])), NewId(h), "none",
                     AxisWarning(h[data]))
        ELSE Filtered(h, Oriented(h[data]), sos, AxisWarning(h[data]))

apply_bandpass_filter(h, data, fs, lowcut, highcut, order) ==
    Filtered(h, Oriented(h[data]), butter(order, lowcut, highcut, fs),
             AxisWarning(h[data]))

apply_notch_filter(h, data, fs, freq, quality_factor) ==
    Filtered(h, Oriented(h[data]), iirnotch(freq, quality_factor, fs),
             AxisWarning(h[data]))

-----------------------------------------------------------------------------
(* The record of a call: what was passed, what came back.                  *)

Call(op, data, before, args, res) ==
    [op      |-> op,            \* the function called
     data    |-> data,          \* identity of the array passed as data
     before  |-> before,        \* contents of that array when the call began
     args    |-> args,          \* the other arguments
     ret     |-> res.ret,       \* identity of the array returned
     out     |-> IF res.ret = None THEN EmptyArr ELSE res.heap[res.ret],
     exc     |-> res.exc,
     printed |-> res.printed]

NoCall == Call("none", None, EmptyArr, <<>>, Outcome(<<>>, None, "none", NoPrint))

\* The parameters of a session of channels `names` sampled at fs.
Params(names, fs) ==
    [channel_names      |-> names,
     sampling_frequency |-> PyFloat(fs.num, fs.den),
     number_of_channels |-> PyInt(Len(names))]

\* The parameters with only the keys of K.
Restrict(params, K) == [k \in K |-> params[k]]

Reader(params, samples, loadable) ==
    [params   |-> params,
     samples  |-> samples,
     tags     |-> "tags",
     loadable |-> loadable]

\* A channel x sample matrix filled with 1..r down the first column.
Ramp(r, c) == Pattern([i \in 1..r |-> i], c)

\* The objects still referenced once the caller drops its previous result:
\* only the array the reader holds.
Collected(h) == [k \in DOMAIN h \cap {reader.samples} |-> h[k]]

IdleMain ==
    /\ pc = "idle"
    /\ raw_signal = None
    /\ ref_signal = None
    /\ notch_signal = None
    /\ preprocessed_signal = None
    /\ trace = <<>>

-----------------------------------------------------------------------------
(* Spec: a caller of the extraction and referencing functions.  The session *)
(* holds one channel row per channel name (the SignalMatrix of the data     *)
(* model).                                                                  *)

RefArgs == {RefNone} \cup {RefList(s) : s \in SeqsUpTo(Names, MaxRefs)}

Init ==
    \E names \in SeqsUpTo(Names, MaxChannels) :
        \E v \in [1..Len(names) -> RawVals] :
            /\ reader = Reader(Params(names, Hz(DefaultFs, 1)), 1, TRUE)
            /\ heap = <<Pattern(v, MaxSamples)>>
            /\ raw0 = Pattern(v, MaxSamples)
            /\ metadata = NoMetadata
            /\ last = NoCall
            /\ nscaled = 0
            /\ IdleMain

CallGetSessionMetadata ==
    /\ \E res \in {get_session_metadata(reader)} :
          /\ metadata' = IF res.exc = "none" THEN res.md ELSE metadata
          /\ heap' = Collected(heap)
          /\ last' = Call("get_session_metadata", None, EmptyArr, <<>>,
                          Outcome(heap', None, res.exc, NoPrint))
    /\ UNCHANGED <<reader, raw0, nscaled, mainVars>>

CallGetEegSignal ==
    /\ nscaled < MaxScalings
    /\ \E res \in {get_eeg_signal(Collected(heap), reader)} :
           /\ heap' = res.heap
           /\ last' = Call("get_eeg_signal", None, EmptyArr, <<>>, res)
           /\ nscaled' = IF res.exc = "none" THEN nscaled + 1 ELSE nscaled
    /\ UNCHANGED <<reader, raw0, metadata, mainVars>>

CallReference(ref_channels) ==
    /\ metadata # NoMetadata
    /\ \E h \in {Collected(heap)} :
       \E res \in {reference(h, reader.samples, metadata, ref_channels)} :
           /\ heap' = res.heap
           /\ last' = Call("reference", reader.samples, h[reader.samples],
                           ref_channels, res)
    /\ UNCHANGED <<reader, raw0, metadata, nscaled, mainVars>>

\* The caller overwrites the array reference() returned: out[:] = 0.
CallerWrites ==
    /\ last.op = "reference"
    /\ last.ret # None
    /\ heap' = [heap EXCEPT ![last.ret] = Scaled(@, Zero)]
    /\ last' = [last EXCEPT !.op = "write"]
    /\ UNCHANGED <<reader, raw0, metadata, nscaled, mainVars>>

Next ==
    \/ CallGetSessionMetadata
    \/ CallGetEegSignal
    \/ \E ref_channels \in RefArgs : CallReference(ref_channels)
    \/ CallerWrites

Spec == Init /\ [][Next]_vars

-----------------------------------------------------------------------------
(* SpecFilter: a caller of the two filters, on matrices of every            *)
(* orientation.                                                             *)

FsVals == {Hz(64, 1), Hz(128, 1), Hz(DefaultFs, 1)}

NotchFreqs == {NotchHz, 60}

LowVals == {0 - 1, 0, LowcutHz, HighcutHz}

HighVals == {0, LowcutHz, HighcutHz, 64, 65}

Orders == {1, DefaultOrder}

Shapes ==
    {s \in (1..MaxDim) \X (1..MaxDim) : s[1] <= MaxChannels \/ s[2] <= MaxChannels}

InitFilter ==
    \E s \in Shapes :
        /\ reader = Reader(Params(<<>>, Hz(DefaultFs, 1)), 1, TRUE)
        /\ heap = <<Ramp(s[1], s[2])>>
        /\ raw0 = Ramp(s[1], s[2])
        /\ metadata = NoMetadata
        /\ last = NoCall
        /\ nscaled = 0
        /\ IdleMain

CallNotch(fs, freq) ==
    /\ \E h \in {Collected(heap)} :
       \E res \in {apply_notch_filter(h, reader.samples, fs, freq, DefaultQuality)} :
           /\ heap' = res.heap
           /\ last' = Call("apply_notch_filter", reader.samples, h[reader.samples],
                           <<fs, freq, DefaultQuality>>, res)
    /\ UNCHANGED <<reader, raw0, metadata, nscaled, mainVars>>

CallBandpass(fs, lowcut, highcut, order) ==
    /\ \E h \in {Collected(heap)} :
       \E res \in {apply_bandpass_filter(h, reader.samples, fs, lowcut, highcut, order)} :
           /\ heap' = res.heap
           /\ last' = Call("apply_bandpass_filter", reader.samples, h[reader.samples],
                           <<fs, lowcut, highcut, order>>, res)
    /\ UNCHANGED <<reader, raw0, metadata, nscaled, mainVars>>

NextFilter ==
    \/ \E fs \in FsVals, freq \in NotchFreqs : CallNotch(fs, freq)
    \/ \E fs \in FsVals, lowcut \in LowVals, highcut \in HighVals, order \in Orders :
           CallBandpass(fs, lowcut, highcut, order)

SpecFilter == InitFilter /\ [][NextFilter]_vars

-----------------------------------------------------------------------------
(* SpecMain: one run of main().  Every statement of the try block is a     *)
(* step; a step that raises passes control to the except clause.           *)

\* The entry main() adds to the trace when it calls a stage.
Stage(name, data, h, args, res) ==
    [stage  |-> name,
     data   |-> data,
     inVal  |-> IF data = None THEN EmptyArr ELSE h[data],
     args   |-> args,
     ret    |-> res.ret,
     outVal |-> IF res.ret = None THEN EmptyArr ELSE res.heap[res.ret],
     exc    |-> res.exc]

\* The parameter sets a session file of channels `names` sampled at fs can
\* give: all three keys, one key or all keys missing, the frequency as a
\* text that is or is not a number, the channel count as a float or as the
\* text of one.
ParamSets(names, fs) ==
    LET full == Params(names, fs)
        keys == DOMAIN full
    IN  {full, Restrict(full, {})}
        \cup {Restrict(full, keys \ {k}) : k \in keys}
        \cup {[full EXCEPT !.sampling_frequency = PyStr(fs.num, fs.den)],
              [full EXCEPT !.sampling_frequency = PyStr(0, 0)],
              [full EXCEPT !.number_of_channels = PyFloat(10 * Len(names) + 9, 10)],
              [full EXCEPT !.number_of_channels = PyStr(10 * Len(names) + 9, 10)]}

InitMain ==
    \E names \in SeqsUpTo(Names, MaxChannels), fs \in FsVals,
       loadable \in BOOLEAN, present \in BOOLEAN, c \in 0..MaxDim :
      \E params \in ParamSets(names, fs) :
        /\ reader = Reader(params, IF present THEN 1 ELSE None, loadable)
        /\ heap = IF present THEN <<Ramp(Len(names), c)>> ELSE <<>>
        /\ raw0 = IF present THEN Ramp(Len(names), c) ELSE EmptyArr
        /\ metadata = NoMetadata
        /\ last = NoCall
        /\ nscaled = 0
        /\ pc = "file_load"
        /\ raw_signal = None
        /\ ref_signal = None
        /\ notch_signal = None
        /\ preprocessed_signal = None
        /\ trace = <<>>

\* manager = file_load(xml_p, raw_p, tag_p): ReadManager raises when the
\* files cannot be read.
MainFileLoad ==
    /\ pc = "file_load"
    /\ pc' = IF reader.loadable THEN "get_session_metadata" ELSE "except"
    /\ UNCHANGED <<heap, reader, raw0, metadata, last, nscaled, raw_signal,
                   ref_signal, notch_signal, preprocessed_signal, trace>>

\* metadata = get_session_metadata(manager)
MainGetSessionMetadata ==
    /\ pc = "get_session_metadata"
    /\ \E res \in {get_session_metadata(reader)} :
          /\ metadata' = IF res.exc = "none" THEN res.md ELSE metadata
          /\ pc' = IF res.exc = "none" THEN "get_eeg_signal" ELSE "except"
    /\ UNCHANGED <<heap, reader, raw0, last, nscaled, raw_signal,
                   ref_signal, notch_signal, preprocessed_signal, trace>>

\* raw_signal = get_eeg_signal(manager)
MainGetEegSignal ==
    /\ pc = "get_eeg_signal"
    /\ \E res \in {get_eeg_signal(heap, reader)} :
           /\ heap' = res.heap
           /\ last' = Call("get_eeg_signal", None, EmptyArr, <<>>, res)
           /\ trace' = Append(trace, Stage("scale", None, heap, <<>>, res))
           /\ nscaled' = IF res.exc = "none" THEN nscaled + 1 ELSE nscaled
           /\ raw_signal' = res.ret
           /\ pc' = IF res.exc = "none" THEN "reference" ELSE "except"
    /\ UNCHANGED <<reader, raw0, metadata, ref_signal, notch_signal,
                   preprocessed_signal>>

\* The arguments main() passes for `data`.
reference_data == raw_signal

\* A variant of notch_data: the notch filter is given the unreferenced signal.
notch_data_raw == raw_signal

notch_data == ref_signal

bandpass_data == notch_signal

\* ref_signal = reference(data=raw_signal, metadata=metadata)
MainReference ==
    /\ pc = "reference"
    /\ \E res \in {reference(heap, reference_data, metadata, RefNone)} :
           /\ heap' = res.heap
           /\ last' = Call("reference", reference_data, heap[reference_data],
                           RefNone, res)
           /\ trace' = Append(trace, Stage("reference", reference_data, heap,
                                           <<>>, res))
           /\ ref_signal' = res.ret
           /\ pc' = IF res.exc = "none" THEN "apply_notch_filter" ELSE "except"
    /\ UNCHANGED <<reader, raw0, metadata, nscaled, raw_signal, notch_signal,
                   preprocessed_signal>>

\* notch_signal = apply_notch_filter(data=ref_signal, fs=metadata.fs, freq=50.0)
MainNotch ==
    /\ pc = "apply_notch_filter"
    /\ \E res \in {apply_notch_filter(heap, notch_data, metadata.fs, NotchHz,
                                     DefaultQuality)} :
           /\ heap' = res.heap
           /\ last' = Call("apply_notch_filter", notch_data, heap[notch_data],
                           <<metadata.fs, NotchHz, DefaultQuality>>, res)
           /\ trace' = Append(trace, Stage("notch", notch_data, heap,
                                           <<NotchHz>>, res))
           /\ notch_signal' = res.ret
           /\ pc' = IF res.exc = "none" THEN "apply_bandpass_filter" ELSE "except"
    /\ UNCHANGED <<reader, raw0, metadata, nscaled, raw_signal, ref_signal,
                   preprocessed_signal>>

\* preprocessed_signal = apply_bandpass_filter(data=notch_signal,
\*     fs=metadata.fs, lowcut=1.0, highcut=40)
MainBandpass ==
    /\ pc = "apply_bandpass_filter"
    /\ \E res \in {apply_bandpass_filter(heap, bandpass_data, metadata.fs,
                                        LowcutHz, HighcutHz, DefaultOrder)} :
           /\ heap' = res.heap
           /\ last' = Call("apply_bandpass_filter", bandpass_data,
                           heap[bandpass_data],
                           <<metadata.fs, LowcutHz, HighcutHz, DefaultOrder>>, res)
           /\ trace' = Append(trace, Stage("bandpass", bandpass_data, heap,
                                           <<LowcutHz, HighcutHz>>, res))
           /\ preprocessed_signal' = res.ret
           /\ pc' = IF res.exc = "none" THEN "complete" ELSE "except"
    /\ UNCHANGED <<reader, raw0, metadata, nscaled, raw_signal, ref_signal,
                   notch_signal>>

\* print("--- Preprocessing Complete ---")
MainComplete ==
    /\ pc = "complete"
    /\ pc' = "done"
    /\ UNCHANGED <<heap, reader, raw0, metadata, last, nscaled, raw_signal,
                   ref_signal, notch_signal, preprocessed_signal, trace>>

\* except Exception as e: print(f"Critical error during execution: {e}")
MainExcept ==
    /\ pc = "except"
    /\ pc' = "failed"
    /\ UNCHANGED <<heap, reader, raw0, metadata, last, nscaled, raw_signal,
                   ref_signal, notch_signal, preprocessed_signal, trace>>

NextMain ==
    \/ MainFileLoad
    \/ MainGetSessionMetadata
    \/ MainGetEegSignal
    \/ MainReference
    \/ MainNotch
    \/ MainBandpass
    \/ MainComplete
    \/ MainExcept

SpecMain == InitMain /\ [][NextMain]_vars

-----------------------------------------------------------------------------
(* Properties.                                                             *)

\* Helpers of the properties.
IsCAR(args) == ~args.given \/ args.names = <<>>

SameShape(x, y) == x.shape = y.shape

Cells(x) == (1..x.shape[1]) \X (1..x.shape[2])

\* Position (from 0) of the first occurrence of name in names.
IndexOf(names, name) ==
    (CHOOSE i \in 1..Len(names) :
        names[i] = name /\ \A j \in 1..(i - 1) : names[j] # name) - 1

\* The sum of column j of x over the rows listed (from 0) in idx.
ColumnSum(x, idx, j) == Sum([k \in 1..Len(idx) |-> x.rows[idx[k] + 1][j]])

AllRows(x) == [i \in 1..x.shape[1] |-> i - 1]

HasMissingName ==
    /\ last.op = "reference"
    /\ ~IsCAR(last.args)
    /\ \E i \in 1..Len(last.args.names) :
           last.args.names[i] \notin DOMAIN metadata.channel_map

AllNamesKnown ==
    /\ last.op = "reference"
    /\ ~IsCAR(last.args)
    /\ \A i \in 1..Len(last.args.names) :
           last.args.names[i] \in DOMAIN metadata.channel_map

\* C1: reference() with a non-empty ref_channels list holding a name that is
\* no key of metadata.channel_map returns an array of the shape of the input,
\* elementwise equal to it, and reports the missing name (the KeyError caught
\* inside the function).
C1_MissingChannelIsNoOp ==
    HasMissingName =>
        /\ last.exc = "none"
        /\ last.ret # None
        /\ SameShape(last.out, last.before)
        /\ \A p \in Cells(last.before) :
               last.out.rows[p[1]][p[2]] = last.before.rows[p[1]][p[2]]
        /\ Len(last.printed.arg) = 1
        /\ last.printed.arg[1] \in Range(last.args.names)
        /\ last.printed.arg[1] \notin DOMAIN metadata.channel_map

\* C1 witness: a list with a known and a missing name, on a matrix that the
\* common average would change.
C1_Witness ==
    /\ HasMissingName
    /\ \E i \in 1..Len(last.args.names) :
           last.args.names[i] \in DOMAIN metadata.channel_map
    /\ last.before.shape[1] = 2
    /\ last.before.rows[1][1] # last.before.rows[2][1]
    /\ last.before.rows[1][1] # Zero

\* C2: reference() with ref_channels None or empty returns the input minus,
\* in every sample column, the mean of that column over all channel rows:
\* rows * (in - out) is the column sum, and every output column sums to zero.
C2_CommonAverage ==
    (last.op = "reference" /\ IsCAR(last.args)) =>
        /\ last.exc = "none"
        /\ SameShape(last.out, last.before)
        /\ \A p \in Cells(last.before) :
               Mul(Num(last.before.shape[1]),
                   Sub(last.before.rows[p[1]][p[2]], last.out.rows[p[1]][p[2]]))
                   = ColumnSum(last.before, AllRows(last.before), p[2])
        /\ \A j \in 1..last.out.shape[2] :
               last.out.shape[1] > 0 =>
                   ColumnSum(last.out, AllRows(last.out), j) = Zero

\* C2 witness: the common average of a scaled two-channel matrix whose
\* channels differ, called with an empty list.
C2_Witness ==
    /\ last.op = "reference"
    /\ last.args = RefList(<<>>)
    /\ nscaled = 1
    /\ last.before.shape = <<2, 2>>
    /\ last.before.rows[1][2] # last.before.rows[2][2]
    /\ last.out.rows[1][2] # last.before.rows[1][2]

\* C3: reference() leaves the array passed as data as it was, on every path,
\* and returns another object: writing to the result does not reach data.
C3_CallerArrayUntouched ==
    last.op \in {"reference", "write"} =>
        /\ heap[last.data] = last.before
        /\ last.ret # None => last.ret # last.data

\* C3 witness: the caller has overwritten a result that reference() had
\* changed with respect to its input.
C3_Witness ==
    /\ last.op = "write"
    /\ last.out # last.before
    /\ heap[last.ret] # last.out
    /\ last.before.rows[1][1] # Zero

\* C4: reference() with a non-empty list of known names returns an array of
\* the shape of the input in which every entry, in the reference rows too, is
\* the input entry minus the mean of its column over the selected rows.
C4_SpecificReference ==
    AllNamesKnown =>
        LET idx == [k \in 1..Len(last.args.names) |->
                       metadata.channel_map[last.args.names[k]]]
        IN  /\ last.exc = "none"
            /\ SameShape(last.out, last.before)
            /\ \A p \in Cells(last.before) :
                   Mul(Num(Len(idx)),
                       Sub(last.before.rows[p[1]][p[2]], last.out.rows[p[1]][p[2]]))
                       = ColumnSum(last.before, idx, p[2])

\* C4 witness: one reference channel of two; the reference row itself changes.
C4_Witness ==
    /\ AllNamesKnown
    /\ last.args.names = <<"Pz">>
    /\ metadata.channel_names = <<"Fz", "Pz">>
    /\ last.before.rows[2][1] # Zero
    /\ last.out.rows[2][1] = Zero
    /\ last.out.rows[1][1] # last.before.rows[1][1]

\* The stages of the pipeline, in the order of main().
StageOrder == <<"scale", "reference", "notch", "bandpass">>

\* C5: get_eeg_signal() raises (ValueError, the EmptySignalError of the
\* design) exactly when get_samples() gave None or an array of zero elements,
\* and main() then runs no referencing, notch or bandpass stage.
C5_EmptySignalIsFatal ==
    \A k \in DOMAIN trace :
        trace[k].stage = "scale" =>
            /\ (trace[k].exc = "ValueError")
                   <=> (reader.samples = None \/ Size(raw0) = 0)
            /\ (trace[k].exc = "none")
                   <=> ~(reader.samples = None \/ Size(raw0) = 0)
            /\ trace[k].exc # "none" =>
                   /\ Len(trace) = k
                   /\ pc \in {"except", "failed"}
                   /\ ref_signal = None
                   /\ notch_signal = None
                   /\ preprocessed_signal = None
                   /\ heap = IF reader.samples = None THEN <<>> ELSE <<raw0>>

\* C5 witness: main() has ended in its except clause after the reader gave
\* an array with channels but no samples.
C5_Witness ==
    /\ pc = "failed"
    /\ Len(trace) = 1
    /\ trace[1].exc = "ValueError"
    /\ reader.samples # None
    /\ raw0.shape[1] > 0

BadBand(fs, lowcut, highcut) ==
    \/ lowcut >= highcut
    \/ lowcut <= 0
    \/ highcut <= 0
    \/ AboveNyquist(highcut, fs)

\* C6: apply_bandpass_filter() raises (ValueError, the
\* InvalidFilterParameterError of the design) and returns no array whenever
\* lowcut >= highcut, lowcut <= 0, highcut <= 0 or highcut > fs/2.
C6_BadBandRaises ==
    (last.op = "apply_bandpass_filter"
         /\ BadBand(last.args[1], last.args[2], last.args[3])) =>
        /\ last.exc = "ValueError"
        /\ last.ret = None
        /\ DOMAIN heap = {reader.samples}

\* C6 witness: a band with lowcut >= highcut, both inside (0, fs/2), on a
\* matrix long enough to be filtered.
C6_Witness ==
    /\ last.op = "apply_bandpass_filter"
    /\ last.args[2] >= last.args[3]
    /\ last.args[2] > 0
    /\ ~AtNyquist(last.args[2], last.args[1])
    /\ last.before.shape[2] > 3 * (2 * last.args[4] + 1)
    /\ last.exc = "ValueError"

IsFilter(op) == op \in {"apply_notch_filter", "apply_bandpass_filter"}

\* The shape the transpose safety net promises for an input of shape s.
NetShape(s) == IF s[1] > s[2] THEN <<s[2], s[1]>> ELSE s

\* The filter design of the last call is valid.
DesignValid ==
    \/ /\ last.op = "apply_notch_filter"
       /\ iirnotch(last.args[2], last.args[3], last.args[1]).exc = "none"
    \/ /\ last.op = "apply_bandpass_filter"
       /\ butter(last.args[4], last.args[2], last.args[3], last.args[1]).exc = "none"

\* The padding the design of the last call needs.
PadOfLast ==
    IF last.op = "apply_notch_filter" THEN 3 * (2 * 1 + 1)
    ELSE 3 * (2 * last.args[4] + 1)

LongSide(s) == Max2(s[1], s[2])

\* C7 as stated: every 2-D input of shape [r, c] (with a valid filter design)
\* yields an output of shape [c, r] when r > c and [r, c] otherwise.
C7_EveryShapeFiltered ==
    (IsFilter(last.op) /\ DesignValid) =>
        /\ last.ret # None
        /\ last.out.shape = NetShape(last.before.shape)

\* C7 amended: an input whose longer side exceeds the padding of the filter
\* (9 samples for the notch, 3 * (2 * order + 1) for the bandpass) yields an
\* output of shape [c, r] when r > c and [r, c] otherwise, filtered along its
\* longer axis; a shorter input raises ValueError and yields no output.
C7_TransposeSafetyNet ==
    (IsFilter(last.op) /\ DesignValid) =>
        IF LongSide(last.before.shape) > PadOfLast
        THEN /\ last.exc = "none"
             /\ last.ret # None
             /\ last.out.shape = NetShape(last.before.shape)
             /\ last.out.shape[2] = LongSide(last.before.shape)
             /\ last.out.rows = IF last.before.shape[1] > last.before.shape[2]
                                THEN Transposed(last.before).rows
                                ELSE last.before.rows
             /\ Len(last.out.filt) = Len(last.before.filt) + 1
        ELSE /\ last.exc = "ValueError"
             /\ last.ret = None

\* C7 witness: a filter has turned a matrix with more rows than columns; the
\* bandpass did so at its default order.
C7_Witness ==
    /\ IsFilter(last.op)
    /\ last.before.shape = <<MaxDim, 2>>
    /\ last.out.shape = <<2, MaxDim>>
    /\ last.op = "apply_bandpass_filter" => last.args[4] = DefaultOrder

\* C8: main() runs scale, reference, notch at 50 Hz, bandpass 1-40 Hz in that
\* order, each at most once, each on the array the stage before returned.
C8_PipelineOrder ==
    /\ Len(trace) <= Len(StageOrder)
    /\ \A k \in DOMAIN trace :
           /\ trace[k].stage = StageOrder[k]
           /\ k > 1 =>
                  /\ trace[k - 1].exc = "none"
                  /\ trace[k].data = trace[k - 1].ret
                  /\ trace[k].inVal = trace[k - 1].outVal
           /\ trace[k].stage = "notch" => trace[k].args = <<NotchHz>>
           /\ trace[k].stage = "bandpass" => trace[k].args = <<LowcutHz, HighcutHz>>
    /\ pc = "done" => Len(trace) = Len(StageOrder)

\* C8 witness: a complete run, whose reference stage changed the signal.
C8_Witness ==
    /\ pc = "done"
    /\ Len(trace) = 4
    /\ trace[4].exc = "none"
    /\ trace[2].outVal # trace[2].inVal
    /\ heap[preprocessed_signal].shape = <<2, MaxDim>>

\* C9: the metadata built by get_session_metadata() maps every channel name
\* to the position of its first occurrence in channel_names.
C9_ChannelMapIsIndexOf ==
    metadata # NoMetadata =>
        \A name \in Range(metadata.channel_names) :
            metadata.channel_map[name] = IndexOf(metadata.channel_names, name)

\* C10: every matrix get_eeg_signal() returns is the recorded raw samples
\* times 0.0715, however many times it has been called on the reader.
C10_ScaledOnce ==
    (last.op = "get_eeg_signal" /\ last.exc = "none") =>
        last.out = Scaled(raw0, VOLTAGE_SCALING)

====
